---- MODULE Spec2Model ----
(***************************************************************************)
(* State-machine model of the capture -> record -> persist -> browse       *)
(* pipeline of the streaming client: the App shell (mode switching), the   *)
(* Broadcaster component (camera session, MediaRecorder runs, the          *)
(* recording catalog written to localStorage) and the VideoGallery         *)
(* component (catalog list read from localStorage, delete, select).        *)
(*                                                                         *)
(* Browser behaviour the components rely on is modelled after the          *)
(* MediaStream Recording event model: MediaRecorder.stop() inactivates the *)
(* recorder synchronously and delivers the final dataavailable event and   *)
(* the stop event later, as queued tasks.                                  *)
(***************************************************************************)
EXTENDS Integers, Sequences, FiniteSets, TLC

\* ------------------------------------------------------------------ bounds
MaxRuns   == 2    \* MediaRecorder objects constructed over the whole behaviour
MaxTicks  == 2    \* cap of the duration counter (1-second interval callbacks)
MaxChunks == 2    \* timeslice chunks a single recorder emits
MaxClock  == 1    \* wall-clock readings (Date.now()) the behaviour goes through
MaxVideos == 2    \* entries in the 'savedVideos' store when the page is opened

Kinds     == {"video", "audio"}
StreamIds == {"s1"}
Runs      == 1..MaxRuns

\* ids of the entries that may already be in the 'savedVideos' store when the
\* page is opened (101..103), and an id that is in no store
VideoIds  == {101, 102, 103, 104}

VARIABLES
  mode,                \* App: 'select' | 'broadcast' | 'gallery'
  streamId,            \* App: streamId state ("" when none)
  mimeSupported,       \* browser: can MediaRecorder record video/webm;codecs=vp9,opus
  camera,              \* getUserMedia promise: "idle" | "pending" | "granted" | "denied"
  streamRef,           \* Broadcaster: streamRef.current # null
  trackLive,           \* MediaStreamTrack.readyState = "live", per kind
  trackEnabled,        \* MediaStreamTrack.enabled, per kind
  isStreaming, isRecording, isVideoEnabled, isAudioEnabled,
  recordingDuration,   \* Broadcaster state
  mediaRecorderRef,    \* 0 (null) or the run whose recorder the ref holds
  recordedChunks,      \* recordedChunksRef.current: sequence of chunks <<run, k>>
  recordingIntervalRef,\* 0 (null) or the id of the last duration interval
  activeTimers,        \* duration intervals that are still scheduled
  nruns,               \* number of MediaRecorder objects constructed so far
  runs,                \* per recorder: its state, its closure, its counters
  last,                \* what saveRecording did in the step just taken
  localStorage,        \* the two collections the components use
  liveUrls,            \* object URLs created and not revoked
  now,                 \* the clock
  raised,              \* exception that escaped the last handler ("none" if none)
  savedVideos,         \* VideoGallery state
  selectedVideo,       \* VideoGallery state: an entry or NoVideo
  removed,             \* history: the ids deleteVideo has been called with
  searchTerm,          \* VideoGallery state: a string, as its characters
  sortBy,              \* VideoGallery state: 'date' | 'duration' | 'name'
  filterBy,            \* VideoGallery state: 'all' | 'today' | 'week' | 'month'
  viewerTimers         \* viewer-count intervals that are still scheduled

vars == << mode, streamId, mimeSupported, camera, streamRef, trackLive,
           trackEnabled, isStreaming, isRecording, isVideoEnabled,
           isAudioEnabled, recordingDuration, mediaRecorderRef, recordedChunks,
           recordingIntervalRef, activeTimers, nruns, runs, last,
           localStorage, liveUrls, now, raised, savedVideos, selectedVideo,
           removed, searchTerm, sortBy, filterBy, viewerTimers >>

appVars     == << mode, streamId >>
sessionVars == << camera, streamRef, trackLive, trackEnabled >>
flagVars    == << isStreaming, isRecording >>
toggleVars  == << isVideoEnabled, isAudioEnabled >>
recVars     == << mediaRecorderRef, recordedChunks, recordingIntervalRef,
                  activeTimers, nruns, runs >>
storeVars   == << localStorage, liveUrls >>
queryVars   == << searchTerm, sortBy, filterBy >>
galleryVars == << savedVideos, selectedVideo, removed >>

NoVideo == [id |-> 0]

\* ------------------------------------------------------------ gallery data
\* SavedVideo records as the gallery reads them from the 'savedVideos' store
Video(i, sid, ts, d) ==
  [id |-> i, filename |-> <<sid, ts>>, url |-> i, timestamp |-> ts,
   duration |-> d, streamId |-> sid]

V1 == Video(101, "s1", 0, 2)
V2 == Video(102, "s2", 1, 0)
V3 == Video(103, "s1", 1, 1)
VideoPool == {V1, V2, V3}

NoDuplicates(list) ==
  \A i, j \in DOMAIN list : i # j => list[i] # list[j]

\* contents the 'savedVideos' collection may have when the page is opened:
\* nothing in the application adds to it, so it is an input of the program
InitialCatalogs ==
  UNION { { c \in [1..n -> VideoPool] : NoDuplicates(c) } : n \in 0..MaxVideos }

\* ------------------------------------------------------------- run records
NoRun ==
  [state |-> "none",       \* MediaRecorder.state ("none": not constructed)
   pending |-> "none",     \* events of stop(): "data", then "stop", then "done"
   duration |-> 0,         \* recordingDuration in the closure of onstop
   streamId |-> "",        \* streamId in the closure of onstop
   ticks |-> 0,            \* interval callbacks between start and stop
   emitted |-> 0]          \* timeslice chunks delivered

\* a recorder whose onstop handler has run: nothing of it is used again
DoneRun == [NoRun EXCEPT !.state = "inactive", !.pending = "done"]

NoSave ==
  [run |-> 0,              \* the recorder whose onstop called saveRecording
   ticks |-> 0,            \* its interval callbacks between start and stop
   emitted |-> 0,          \* its timeslice chunks
   nchunks |-> 0,          \* length of the chunk list at the call
   artifact |-> <<>>,      \* chunks assembled into the Blob
   outcome |-> "none",     \* "skipped" | "saved" | "failed"
   duration |-> 0]         \* duration field of the entry written

AllLive  == \A k \in Kinds : trackLive[k]
NoneLive == \A k \in Kinds : ~trackLive[k]

InitWith(catalog) ==
  /\ mode = "select"
  /\ streamId = ""
  /\ mimeSupported \in BOOLEAN
  /\ camera = "idle"
  /\ streamRef = FALSE
  /\ trackLive = [k \in Kinds |-> FALSE]
  /\ trackEnabled = [k \in Kinds |-> FALSE]
  /\ isStreaming = FALSE
  /\ isRecording = FALSE
  /\ isVideoEnabled = TRUE
  /\ isAudioEnabled = TRUE
  /\ recordingDuration = 0
  /\ mediaRecorderRef = 0
  /\ recordedChunks = <<>>
  /\ recordingIntervalRef = 0
  /\ activeTimers = {}
  /\ nruns = 0
  /\ runs = [r \in Runs |-> NoRun]
  /\ last = NoSave
  /\ localStorage = [savedVideos |-> catalog, streamRecordings |-> <<>>]
  /\ liveUrls = {}
  /\ now = 0
  /\ raised = "none"
  /\ savedVideos = <<>>
  /\ selectedVideo = NoVideo
  /\ removed = {}
  /\ searchTerm = <<>>
  /\ sortBy = "date"
  /\ filterBy = "all"
  /\ viewerTimers = {}

\* the page is opened on a store that holds two earlier videos
Init == InitWith(<<V1, V2>>)

\* the page is opened on any of the stores
InitGallery == \E c \in InitialCatalogs : InitWith(c)

\* no event of an unmounted Broadcaster is still to come
Quiescent ==
  /\ camera # "pending"
  /\ \A r \in Runs : runs[r].pending \in {"none", "done"}
  /\ \A r \in Runs : runs[r].state # "recording"
  /\ activeTimers = {}

\* ------------------------------------------------------------------- App
\* App.startBroadcast, the mount of Broadcaster and its effect (startCamera)
StartBroadcast ==
  /\ mode = "select"
  /\ Quiescent
  /\ \E id \in StreamIds : streamId' = id
  /\ mode' = "broadcast"
  /\ camera' = "pending"
  /\ streamRef' = FALSE
  /\ trackLive' = [k \in Kinds |-> FALSE]
  /\ trackEnabled' = [k \in Kinds |-> FALSE]
  /\ isStreaming' = FALSE
  /\ isRecording' = FALSE
  /\ isVideoEnabled' = TRUE
  /\ isAudioEnabled' = TRUE
  /\ recordingDuration' = 0
  /\ mediaRecorderRef' = 0
  /\ recordedChunks' = <<>>
  /\ recordingIntervalRef' = 0
  /\ raised' = "none"
  /\ last' = NoSave
  /\ UNCHANGED << mimeSupported, viewerTimers, queryVars, activeTimers, nruns, runs, storeVars, now,
                  galleryVars >>

\* startCamera: getUserMedia resolves
CameraGranted ==
  /\ camera = "pending"
  /\ camera' = "granted"
  /\ streamRef' = TRUE
  /\ trackLive' = [k \in Kinds |-> TRUE]
  /\ trackEnabled' = [k \in Kinds |-> TRUE]
  /\ raised' = "none"
  /\ last' = NoSave
  /\ UNCHANGED << appVars, mimeSupported, viewerTimers, queryVars, flagVars, toggleVars,
                  recordingDuration, recVars, storeVars, now, galleryVars >>

\* startCamera without its try/catch: the rejection leaves the function
CameraDenied_rethrows ==
  /\ camera = "pending"
  /\ camera' = "denied"
  /\ raised' = "NotAllowedError"
  /\ last' = NoSave
  /\ UNCHANGED << appVars, mimeSupported, viewerTimers, queryVars, streamRef, trackLive,
                  trackEnabled, flagVars, toggleVars, recordingDuration,
                  recVars, storeVars, now, galleryVars >>

\* startCamera: getUserMedia rejects; the catch block logs and alerts
CameraDenied ==
  /\ camera = "pending"
  /\ camera' = "denied"
  /\ raised' = "none"
  /\ last' = NoSave
  /\ UNCHANGED << appVars, mimeSupported, viewerTimers, queryVars, streamRef, trackLive, trackEnabled,
                  flagVars, toggleVars, recordingDuration, recVars, storeVars,
                  now, galleryVars >>

\* ------------------------------------------------------------ Broadcaster
\* the browser's answer to MediaRecorder.start(1000): with a live track it
\* starts; on a stream whose tracks have all ended browsers differ, so both
\* outcomes are possible
StartOutcomes == IF NoneLive THEN {"started", "throws"} ELSE {"started"}

\* new MediaRecorder(..) with its two handlers: the handlers close over the
\* render in which startStreaming runs (recordingDuration, streamId)
NewRecorder(dur, sid) == [NoRun EXCEPT !.state = "inactive", !.duration = dur,
                                       !.streamId = sid]

\* a recorder whose start() threw: it delivers no event, so its handlers and
\* what they close over are never used
NeverStarted == [NoRun EXCEPT !.state = "inactive"]

\* startStreaming
StartClick ==
  /\ mode = "broadcast"
  /\ ~isStreaming                       \* the start button is rendered
  /\ raised' = "none"
  /\ last' = NoSave
  /\ IF ~streamRef
       THEN UNCHANGED << flagVars, recordingDuration, recVars,
                         viewerTimers >>
       ELSE /\ isStreaming' = TRUE
            /\ isRecording' = TRUE
            /\ recordingDuration' = 0
            /\ IF ~mimeSupported        \* new MediaRecorder throws, caught
                 THEN UNCHANGED << mediaRecorderRef, recordedChunks,
                                   recordingIntervalRef, activeTimers, nruns,
                                   runs, viewerTimers >>
                 ELSE /\ nruns < MaxRuns
                      /\ nruns' = nruns + 1
                      /\ mediaRecorderRef' = nruns + 1
                      /\ recordedChunks' = <<>>
                      /\ \E o \in StartOutcomes :
                           IF o = "started"
                             THEN /\ runs' = [runs EXCEPT ![nruns + 1] =
                                        [NewRecorder(recordingDuration, streamId)
                                           EXCEPT !.state = "recording"]]
                                  /\ recordingIntervalRef' = nruns + 1
                                  /\ activeTimers' = activeTimers \cup {nruns + 1}
                                  /\ viewerTimers' = viewerTimers \cup {nruns + 1}
                             ELSE /\ runs' = [runs EXCEPT ![nruns + 1] =
                                        NeverStarted]
                                  /\ UNCHANGED << recordingIntervalRef,
                                                  activeTimers,
                                                  viewerTimers >>
  /\ UNCHANGED << appVars, mimeSupported, queryVars, sessionVars, toggleVars, storeVars,
                  now, galleryVars >>

\* the guard without its state test
RecorderActive_anyState(ref, rs) == ref # 0

\* mediaRecorderRef.current && mediaRecorderRef.current.state !== 'inactive'
RecorderActive(ref, rs) == ref # 0 /\ rs[ref].state # "inactive"

\* MediaRecorder.stop(): inactivate now, deliver dataavailable and stop later
StopRecorder(rs, r) == [rs EXCEPT ![r] = [@ EXCEPT !.state = "inactive",
                                                   !.pending = "data"]]

\* only the video track is stopped
StopTracks_videoOnly(live) == [live EXCEPT !["video"] = FALSE]

\* streamRef.current.getTracks().forEach(track => track.stop())
StopTracks(live) == [k \in Kinds |-> FALSE]

\* stopStreaming: the part shared by the stop button and the effect cleanup
stopStreaming ==
  /\ isStreaming' = FALSE
  /\ isRecording' = FALSE
  /\ runs' = IF RecorderActive(mediaRecorderRef, runs)
               THEN StopRecorder(runs, mediaRecorderRef)
               ELSE runs
  /\ activeTimers' = IF recordingIntervalRef # 0
                       THEN activeTimers \ {recordingIntervalRef}
                       ELSE activeTimers
  /\ trackLive' = IF streamRef THEN StopTracks(trackLive) ELSE trackLive
  /\ raised' = "none"
  /\ last' = NoSave
  /\ UNCHANGED << mimeSupported, viewerTimers, queryVars, camera, streamRef, trackEnabled, toggleVars,
                  recordingDuration, mediaRecorderRef, recordedChunks,
                  recordingIntervalRef, nruns, storeVars, now, galleryVars >>

\* the stop button
StopClick ==
  /\ mode = "broadcast"
  /\ isStreaming
  /\ stopStreaming
  /\ UNCHANGED appVars

\* App.goBack from the Broadcaster: unmount runs the effect cleanup
Unmount ==
  /\ mode = "broadcast"
  /\ stopStreaming
  /\ mode' = "select"
  /\ streamId' = ""

\* the video switched off by stopping its track
ToggleVideo_stopsTrack ==
  /\ mode = "broadcast"
  /\ IF streamRef
       THEN /\ trackLive' = [trackLive EXCEPT !["video"] = FALSE]
            /\ isVideoEnabled' = ~isVideoEnabled
       ELSE UNCHANGED << trackLive, isVideoEnabled >>
  /\ raised' = "none"
  /\ last' = NoSave
  /\ UNCHANGED << appVars, mimeSupported, viewerTimers, queryVars, camera, streamRef,
                  trackEnabled, flagVars, isAudioEnabled, recordingDuration,
                  recVars, storeVars, now, galleryVars >>

\* toggleVideo
ToggleVideo ==
  /\ mode = "broadcast"
  /\ IF streamRef
       THEN /\ trackEnabled' = [trackEnabled EXCEPT !["video"] = ~@]
            /\ isVideoEnabled' = ~trackEnabled["video"]
       ELSE UNCHANGED << trackEnabled, isVideoEnabled >>
  /\ raised' = "none"
  /\ last' = NoSave
  /\ UNCHANGED << appVars, mimeSupported, viewerTimers, queryVars, camera, streamRef, trackLive,
                  flagVars, isAudioEnabled, recordingDuration, recVars,
                  storeVars, now, galleryVars >>

\* toggleAudio
ToggleAudio ==
  /\ mode = "broadcast"
  /\ IF streamRef
       THEN /\ trackEnabled' = [trackEnabled EXCEPT !["audio"] = ~@]
            /\ isAudioEnabled' = ~trackEnabled["audio"]
       ELSE UNCHANGED << trackEnabled, isAudioEnabled >>
  /\ raised' = "none"
  /\ last' = NoSave
  /\ UNCHANGED << appVars, mimeSupported, viewerTimers, queryVars, camera, streamRef, trackLive,
                  flagVars, isVideoEnabled, recordingDuration, recVars,
                  storeVars, now, galleryVars >>

\* setTimeout(() => clearInterval(viewerInterval), 30000) fires
ViewerTimeout(t) ==
  /\ t \in viewerTimers
  /\ viewerTimers' = viewerTimers \ {t}
  /\ raised' = "none"
  /\ last' = NoSave
  /\ UNCHANGED << appVars, mimeSupported, queryVars, sessionVars, flagVars,
                  toggleVars, recordingDuration, recVars, storeVars, now,
                  galleryVars >>

\* the duration interval fires: setRecordingDuration(prev => prev + 1)
DurationTick(t) ==
  /\ t \in activeTimers
  /\ recordingDuration < MaxTicks
  /\ recordingDuration' = IF mode = "broadcast" THEN recordingDuration + 1
                                                 ELSE recordingDuration
  /\ runs' = [runs EXCEPT ![t] = [@ EXCEPT !.ticks = @ + 1]]
  /\ raised' = "none"
  /\ last' = NoSave
  /\ UNCHANGED << appVars, mimeSupported, viewerTimers, queryVars, sessionVars, flagVars, toggleVars,
                  mediaRecorderRef, recordedChunks, recordingIntervalRef,
                  activeTimers, nruns, storeVars, now, galleryVars >>

\* ondataavailable: if (event.data.size > 0) recordedChunksRef.current.push(..)
PushChunk(chunks, c, nonEmpty) == IF nonEmpty THEN Append(chunks, c) ELSE chunks

\* a timeslice (1000 ms) of recorder r is complete: dataavailable fires with
\* the second of media just recorded; chunk <<r, k>>
DataAvailable(r) ==
  /\ runs[r].state = "recording"
  /\ runs[r].emitted < MaxChunks
  /\ runs' = [runs EXCEPT ![r] = [@ EXCEPT !.emitted = @ + 1]]
  /\ recordedChunks' = PushChunk(recordedChunks, <<r, runs[r].emitted + 1>>, TRUE)
  /\ raised' = "none"
  /\ last' = NoSave
  /\ UNCHANGED << appVars, mimeSupported, viewerTimers, queryVars, sessionVars, flagVars, toggleVars,
                  recordingDuration, mediaRecorderRef, recordingIntervalRef,
                  activeTimers, nruns, storeVars, now, galleryVars >>

\* the browser stops a recorder whose tracks have all ended
TracksEnded(r) ==
  /\ runs[r].state = "recording"
  /\ NoneLive
  /\ runs' = StopRecorder(runs, r)
  /\ raised' = "none"
  /\ last' = NoSave
  /\ UNCHANGED << appVars, mimeSupported, viewerTimers, queryVars, sessionVars, flagVars, toggleVars,
                  recordingDuration, mediaRecorderRef, recordedChunks,
                  recordingIntervalRef, activeTimers, nruns, storeVars, now,
                  galleryVars >>

\* queued recorder events are delivered in the order the recorders stopped
EarlierDone(r) == \A q \in Runs : q < r => runs[q].pending \in {"none", "done"}

\* the final dataavailable of recorder r: the data gathered since the last
\* timeslice, possibly none; chunk <<r, 0>>
FinalData(r) ==
  /\ runs[r].pending = "data"
  /\ EarlierDone(r)
  /\ \E nonEmpty \in BOOLEAN :
       recordedChunks' = PushChunk(recordedChunks, <<r, 0>>, nonEmpty)
  /\ runs' = [runs EXCEPT ![r] = [@ EXCEPT !.pending = "stop"]]
  /\ raised' = "none"
  /\ last' = NoSave
  /\ UNCHANGED << appVars, mimeSupported, viewerTimers, queryVars, sessionVars, flagVars, toggleVars,
                  recordingDuration, mediaRecorderRef, recordingIntervalRef,
                  activeTimers, nruns, storeVars, now, galleryVars >>

\* saveRecording without its early return
SaveSkips_never(chunks) == FALSE

\* if (recordedChunksRef.current.length === 0) return
SaveSkips(chunks) == Len(chunks) = 0

\* URL.createObjectURL / URL.revokeObjectURL
CreateObjectURL(urls, u) == urls \cup {u}
RevokeObjectURL(urls, u) == urls \ {u}

\* the object pushed onto the 'streamRecordings' list; the object URL of the
\* Blob of recorder r is named r
Recording(r, sid, dur, t) ==
  [id |-> t, streamId |-> sid, filename |-> <<sid, t>>, date |-> t,
   duration |-> dur, url |-> r]

\* localStorage.setItem: the store may refuse the write (quota)
SetItemOutcomes == {"stored", "QuotaExceededError"}

\* the write wrapped in a try/catch that swallows the exception
Surfaced_swallowed(o) == "none"

\* saveRecording has no try/catch around setItem: what the store throws
\* escapes the handler
Surfaced(o) == o

\* the clock readings possible now: time has passed since the last reading,
\* or not enough to show
ClockReadings == { t \in {now, now + 1} : t <= MaxClock }

\* saveRecording, called by onstop of recorder r with the closure of the
\* render in which the recorder was started; t is the time it reads
saveRecording(r, t) ==
  LET h == [NoSave EXCEPT !.run = r, !.ticks = runs[r].ticks,
                          !.emitted = runs[r].emitted,
                          !.nchunks = Len(recordedChunks)]
  IN IF SaveSkips(recordedChunks)
       THEN /\ last' = [h EXCEPT !.outcome = "skipped"]
            /\ raised' = "none"
            /\ UNCHANGED storeVars
       ELSE /\ liveUrls' = RevokeObjectURL(CreateObjectURL(liveUrls, r), r)
            /\ \E o \in SetItemOutcomes :
                 IF o = "stored"
                   THEN /\ localStorage' =
                             [localStorage EXCEPT !.streamRecordings =
                                Append(@, Recording(r, runs[r].streamId,
                                                    runs[r].duration, t))]
                        /\ last' = [h EXCEPT !.outcome = "saved",
                                             !.artifact = recordedChunks,
                                             !.duration = runs[r].duration]
                        /\ raised' = "none"
                   ELSE /\ UNCHANGED localStorage
                        /\ last' = [h EXCEPT !.outcome = "failed",
                                             !.artifact = recordedChunks]
                        /\ raised' = Surfaced(o)

\* the stop event of recorder r: mediaRecorder.onstop
OnStop(r) ==
  /\ runs[r].pending = "stop"
  /\ \E t \in ClockReadings : saveRecording(r, t) /\ now' = t
  /\ runs' = [runs EXCEPT ![r] = DoneRun]
  /\ UNCHANGED << appVars, mimeSupported, viewerTimers, queryVars, sessionVars, flagVars, toggleVars,
                  recordingDuration, mediaRecorderRef, recordedChunks,
                  recordingIntervalRef, activeTimers, nruns, galleryVars >>

\* time passes while the gallery is shown
ClockAdvance ==
  /\ now < MaxClock
  /\ now' = now + 1
  /\ last' = NoSave
  /\ UNCHANGED << appVars, mimeSupported, viewerTimers, queryVars, sessionVars, flagVars, toggleVars,
                  recordingDuration, recVars, storeVars, raised, galleryVars >>

\* ---------------------------------------------------------- VideoGallery
\* JSON.parse(localStorage.getItem('savedVideos') || '[]')
LoadList(store) == store.savedVideos

\* App: the gallery button; VideoGallery mounts and its effect runs
\* loadSavedVideos
OpenGallery ==
  /\ mode = "select"
  /\ mode' = "gallery"
  /\ savedVideos' = LoadList(localStorage)
  /\ selectedVideo' = NoVideo
  /\ searchTerm' = <<>>
  /\ sortBy' = "date"
  /\ filterBy' = "all"
  /\ raised' = "none"
  /\ last' = NoSave
  /\ UNCHANGED << streamId, mimeSupported, viewerTimers, sessionVars, flagVars, toggleVars,
                  recordingDuration, recVars, storeVars, now, removed >>

\* App.goBack from the gallery
CloseGallery ==
  /\ mode = "gallery"
  /\ mode' = "select"
  /\ savedVideos' = <<>>
  /\ selectedVideo' = NoVideo
  /\ searchTerm' = <<>>
  /\ sortBy' = "date"
  /\ filterBy' = "all"
  /\ raised' = "none"
  /\ last' = NoSave
  /\ UNCHANGED << streamId, mimeSupported, viewerTimers, sessionVars, flagVars, toggleVars,
                  recordingDuration, recVars, storeVars, now, removed >>

\* onClick={() => setSelectedVideo(video)} on a listed video
SelectVideo(i) ==
  /\ mode = "gallery"
  /\ i \in DOMAIN savedVideos
  /\ selectedVideo' = savedVideos[i]
  /\ raised' = "none"
  /\ last' = NoSave
  /\ UNCHANGED << appVars, mimeSupported, viewerTimers, queryVars, sessionVars, flagVars, toggleVars,
                  recordingDuration, recVars, storeVars, now, savedVideos,
                  removed >>

\* the filter with its test inverted
RemoveId_inverted(list, videoId) ==
  LET Keep(v) == v.id = videoId IN SelectSeq(list, Keep)

\* savedVideos.filter(video => video.id !== videoId)
RemoveId(list, videoId) ==
  LET Keep(v) == v.id # videoId IN SelectSeq(list, Keep)

\* deleteVideo without its last statement: the selection is left alone
DeleteVideo_keepsSelection(videoId) ==
  /\ mode = "gallery"
  /\ savedVideos' = RemoveId(savedVideos, videoId)
  /\ localStorage' = [localStorage EXCEPT !.savedVideos =
                         RemoveId(savedVideos, videoId)]
  /\ selectedVideo' = selectedVideo
  /\ removed' = removed \cup {videoId}
  /\ raised' = "none"
  /\ last' = NoSave
  /\ UNCHANGED << appVars, mimeSupported, viewerTimers, queryVars, sessionVars, flagVars, toggleVars,
                  recordingDuration, recVars, liveUrls, now >>

\* deleteVideo
DeleteVideo(videoId) ==
  /\ mode = "gallery"
  /\ savedVideos' = RemoveId(savedVideos, videoId)
  /\ localStorage' = [localStorage EXCEPT !.savedVideos =
                         RemoveId(savedVideos, videoId)]
  /\ selectedVideo' = IF selectedVideo.id = videoId THEN NoVideo
                                                    ELSE selectedVideo
  /\ removed' = removed \cup {videoId}
  /\ raised' = "none"
  /\ last' = NoSave
  /\ UNCHANGED << appVars, mimeSupported, viewerTimers, queryVars, sessionVars, flagVars, toggleVars,
                  recordingDuration, recVars, liveUrls, now >>

\* ------------------------------------------- filteredAndSortedVideos
\* time is counted in half days: 24 * 60 * 60 * 1000 ms are two units
Day == 2

\* the characters of the strings, in collation order, and their lower case
Collation ==
  << "1", "2", "a", "b", "c", "d", "e", "i", "k", "l", "m", "p", "t", "x", "z" >>
LowerChar(c) ==
  CASE c = "A" -> "a" [] c = "C" -> "c" [] c = "L" -> "l"
    [] c = "X" -> "x" [] c = "Z" -> "z" [] OTHER -> c

\* a stored video whose filename and streamId are given by their characters
Entry(i, name, sid, ts, d) ==
  [id |-> i, filename |-> name, url |-> i, timestamp |-> ts, duration |-> d,
   streamId |-> sid]

\* recorded today; 10 days ago; yesterday, 12 hours before time 0; exactly
\* 7 days before time 0; exactly 30 days before time 0
Qa == Entry(201, << "c", "l", "i", "p", "1" >>, << "A", "1" >>, 0, 5)
Qb == Entry(202, << "C", "l", "i", "p", "2" >>, << "b", "2" >>, 0 - 10 * Day, 5)
Qc == Entry(203, << "t", "a", "l", "k" >>, << "X", "C" >>, 0 - 1, 9)
Qd == Entry(204, << "Z", "e", "d" >>, << "c", "l" >>, 0 - 7 * Day, 0)
Qe == Entry(205, << "m", "i", "x" >>, << "A", "1" >>, 0 - 30 * Day, 5)
QueryPool == {Qa, Qb, Qc, Qd, Qe}

\* the stores the gallery is queried on: every order of every choice of
\* at most MaxVideos of the entries
QueryCatalogs ==
  {c \in UNION {[1..n -> QueryPool] : n \in 0..MaxVideos} : NoDuplicates(c)}

\* what can be typed into the search box
SearchTerms ==
  { <<>>, << "c", "l", "i", "p" >>, << "C", "L" >>, << "x", "c" >>,
    << "2" >>, << "k", "z" >> }
SortKeys   == {"date", "duration", "name"}
TimeFilters == {"all", "today", "week", "month"}

\* the strings compared as they are typed
toLowerCase_identity(str) == str

\* String.prototype.toLowerCase
toLowerCase(str) == [i \in 1..Len(str) |-> LowerChar(str[i])]

\* String.prototype.includes
includes(str, sub) ==
  \E i \in 0..(Len(str) - Len(sub)) : SubSeq(str, i + 1, i + Len(sub)) = sub

\* Date.prototype.toDateString: the calendar day of a time
toDateString(t) == t \div Day

\* the 'today' test taken as "less than 24 hours old"
sameDate_within24h(videoDate, t) == videoDate > t - Day

\* case 'today': videoDate.toDateString() === now.toDateString()
sameDate(videoDate, t) == toDateString(videoDate) = toDateString(t)

\* the week window computed with the month's length
weekAgo_month(t) == t - 30 * Day

\* new Date(now.getTime() - 7 * 24 * 60 * 60 * 1000)
weekAgo(t) == t - 7 * Day

\* new Date(now.getTime() - 30 * 24 * 60 * 60 * 1000)
monthAgo(t) == t - 30 * Day

\* the search test of the filter callback
matchesSearch(video, term) ==
  \/ includes(toLowerCase(video.filename), toLowerCase(term))
  \/ includes(toLowerCase(video.streamId), toLowerCase(term))

\* the filter callback: the search test, then the switch on filterBy
keeps(video, term, by, t) ==
  IF ~matchesSearch(video, term)
    THEN FALSE
    ELSE CASE by = "today" -> sameDate(video.timestamp, t)
           [] by = "week"  -> video.timestamp >= weekAgo(t)
           [] by = "month" -> video.timestamp >= monthAgo(t)
           [] OTHER        -> TRUE

\* Array.prototype.filter: a new array of the kept elements, in order
filter(list, term, by, t) ==
  LET Keep(v) == keeps(v, term, by, t) IN SelectSeq(list, Keep)

\* the collation keys of a string: its letters, then their case
Rank(c) == CHOOSE k \in DOMAIN Collation : Collation[k] = LowerChar(c)
Primary(str) == [i \in 1..Len(str) |-> Rank(str[i])]
CaseKey(str) == [i \in 1..Len(str) |-> IF LowerChar(str[i]) = str[i] THEN 0 ELSE 1]
LexLess(p, q) ==
  \E i \in 1..(Len(p) + 1) :
    /\ i <= Len(q)
    /\ SubSeq(p, 1, i - 1) = SubSeq(q, 1, i - 1)
    /\ (i > Len(p) \/ p[i] < q[i])

\* String.prototype.localeCompare
localeCompare(a, b) ==
  IF LexLess(Primary(a), Primary(b)) THEN 0 - 1
  ELSE IF LexLess(Primary(b), Primary(a)) THEN 1
  ELSE IF LexLess(CaseKey(a), CaseKey(b)) THEN 0 - 1
  ELSE IF LexLess(CaseKey(b), CaseKey(a)) THEN 1
  ELSE 0

\* the sort callback: negative when a goes before b
Compare(a, b, key) ==
  CASE key = "date"     -> b.timestamp - a.timestamp
    [] key = "duration" -> b.duration - a.duration
    [] key = "name"     -> localeCompare(a.filename, b.filename)
    [] OTHER            -> 0

\* Array.prototype.sort is stable: an element goes in front of the first
\* one the callback puts it strictly before, elements taken in array order
RECURSIVE InsertSorted(_, _, _)
InsertSorted(x, arr, key) ==
  IF arr = <<>> THEN << x >>
  ELSE IF Compare(x, Head(arr), key) < 0 THEN << x >> \o arr
  ELSE << Head(arr) >> \o InsertSorted(x, Tail(arr), key)

RECURSIVE sort(_, _)
sort(arr, key) ==
  IF arr = <<>> THEN <<>>
  ELSE InsertSorted(arr[Len(arr)], sort(SubSeq(arr, 1, Len(arr) - 1), key), key)

\* const filteredAndSortedVideos = savedVideos.filter(...).sort(...)
filteredAndSortedVideos(list, term, key, by, t) ==
  sort(filter(list, term, by, t), key)

\* the sort called on the state array itself
AfterRender_sortsState(list, term, key, by, t) == sort(list, key)

\* the savedVideos array after a render: filter returned a new array, so
\* the in-place sort reorders that one and not the state
AfterRender(list, term, key, by, t) == list

\* the search box: onChange sets searchTerm, the component renders again
SetSearchTerm(term) ==
  /\ mode = "gallery"
  /\ searchTerm' = term
  /\ savedVideos' = AfterRender(savedVideos, term, sortBy, filterBy, now)
  /\ raised' = "none"
  /\ last' = NoSave
  /\ UNCHANGED << appVars, mimeSupported, viewerTimers, sessionVars, flagVars, toggleVars,
                  recordingDuration, recVars, storeVars, now, selectedVideo,
                  removed, sortBy, filterBy >>

\* the sort select
SetSortBy(key) ==
  /\ mode = "gallery"
  /\ sortBy' = key
  /\ savedVideos' = AfterRender(savedVideos, searchTerm, key, filterBy, now)
  /\ raised' = "none"
  /\ last' = NoSave
  /\ UNCHANGED << appVars, mimeSupported, viewerTimers, sessionVars, flagVars, toggleVars,
                  recordingDuration, recVars, storeVars, now, selectedVideo,
                  removed, searchTerm, filterBy >>

\* the time filter select
SetFilterBy(by) ==
  /\ mode = "gallery"
  /\ filterBy' = by
  /\ savedVideos' = AfterRender(savedVideos, searchTerm, sortBy, by, now)
  /\ raised' = "none"
  /\ last' = NoSave
  /\ UNCHANGED << appVars, mimeSupported, viewerTimers, sessionVars, flagVars, toggleVars,
                  recordingDuration, recVars, storeVars, now, selectedVideo,
                  removed, searchTerm, sortBy >>

\* ------------------------------------------------------------------ Next
Next ==
  \/ StartBroadcast
  \/ CameraGranted
  \/ CameraDenied
  \/ StartClick
  \/ StopClick
  \/ Unmount
  \/ \E t \in Runs : DurationTick(t)
  \/ \E r \in Runs : DataAvailable(r)
  \/ \E r \in Runs : TracksEnded(r)
  \/ \E r \in Runs : FinalData(r)
  \/ \E r \in Runs : OnStop(r)
  \/ OpenGallery
  \/ CloseGallery

Spec == Init /\ [][Next]_vars

\* the gallery alone, over every initial store
NextGallery ==
  \/ OpenGallery
  \/ CloseGallery
  \/ \E i \in 1..MaxVideos : SelectVideo(i)
  \/ \E videoId \in VideoIds : DeleteVideo(videoId)
  \/ ClockAdvance

SpecGallery == InitGallery /\ [][NextGallery]_vars

\* the gallery's query, over every store of QueryCatalogs
InitQuery == \E c \in QueryCatalogs : InitWith(c)

NextQuery ==
  \/ OpenGallery
  \/ CloseGallery
  \/ \E term \in SearchTerms : SetSearchTerm(term)
  \/ \E key \in SortKeys : SetSortBy(key)
  \/ \E by \in TimeFilters : SetFilterBy(by)
  \/ ClockAdvance

SpecQuery == InitQuery /\ [][NextQuery]_vars

\* the Broadcaster with its two toggle buttons, up to the stop events of
\* its recorders (the toggles take no part in saving)
NextToggle ==
  \/ StartBroadcast
  \/ CameraGranted
  \/ CameraDenied
  \/ StartClick
  \/ StopClick
  \/ Unmount
  \/ ToggleVideo
  \/ ToggleAudio
  \/ \E t \in Runs : DurationTick(t)
  \/ \E r \in Runs : DataAvailable(r)
  \/ \E r \in Runs : TracksEnded(r)
  \/ \E r \in Runs : FinalData(r)

SpecToggle == Init /\ [][NextToggle]_vars

\* the Broadcaster with the timers it starts: the duration interval, the
\* viewer-count interval and the timeout that clears the latter
NextTimers ==
  \/ StartBroadcast
  \/ CameraGranted
  \/ CameraDenied
  \/ StartClick
  \/ StopClick
  \/ Unmount
  \/ \E t \in Runs : DurationTick(t)
  \/ \E t \in Runs : ViewerTimeout(t)
  \/ \E r \in Runs : TracksEnded(r)
  \/ \E r \in Runs : FinalData(r)
  \/ \E r \in Runs : OnStop(r)

SpecTimers == Init /\ [][NextTimers]_vars

\* ================================================================ claims
Recordings == localStorage.streamRecordings

\* number of catalog entries that hold the Blob of recorder r
EntriesOf(r) ==
  Cardinality({ i \in DOMAIN Recordings : Recordings[i].url = r })

\* a gallery entry v and a recorder entry e agree in every field
SameEntry(v, e) ==
  /\ v.id = e.id
  /\ v.filename = e.filename
  /\ v.url = e.url
  /\ v.timestamp = e.date
  /\ v.duration = e.duration
  /\ v.streamId = e.streamId

\* C1: every entry saveRecording has appended is, field for field, in the
\* list the gallery loads afterwards (loadSavedVideos at the gallery's mount).
C1_AppendThenList ==
  [][OpenGallery =>
       \A i \in DOMAIN Recordings :
         \E j \in DOMAIN savedVideos' : SameEntry(savedVideos'[j], Recordings[i])]_vars

\* C2: the duration written with a saved recording equals the number of
\* 1-second interval ticks between the start and the stop of that run.
C2_DurationIsTickCount ==
  last.outcome = "saved" => last.duration = last.ticks

\* C3: the final dataavailable event of a run precedes the stop of any device
\* track: whenever a step stops a live track, no recorder is left with its
\* final chunk still to be delivered.
C3_FlushBeforeRelease ==
  [][(\E k \in Kinds : trackLive[k] /\ ~trackLive'[k]) =>
       \A r \in Runs : runs'[r].pending # "data"]_vars

\* the chunks recorder r emitted at its timeslice ticks 1..n, in order
TickChunks(r, n) == [k \in 1..n |-> <<r, k>>]

\* C4: the artifact assembled for a run with n timeslice chunks consists of
\* exactly those n chunks, in emission order.
C4_ArtifactIsTickChunks ==
  last.run # 0 => last.artifact = TickChunks(last.run, last.emitted)

\* C5 (as claimed): a run stopped with zero chunks collected completes with an
\* empty artifact and a catalog entry of duration 0.
C5_EmptyRunSaved ==
  (last.run # 0 /\ last.nchunks = 0) =>
    (last.outcome = "saved" /\ last.duration = 0 /\ EntriesOf(last.run) = 1)

\* C5 (amended): a run stopped with zero chunks collected is skipped without
\* an error: no artifact is assembled and no catalog entry is written.
C5_EmptyRunSkipped ==
  (last.run # 0 /\ last.nchunks = 0) =>
    (last.outcome = "skipped" /\ last.artifact = <<>> /\
     EntriesOf(last.run) = 0 /\ raised = "none")

C5_Witness ==
  last.run # 0 /\ last.nchunks = 0 /\ last.emitted = 0 /\
  runs[last.run].pending = "done"

\* a stopStreaming call made while no recorder exists (the recorder is Idle)
StopWhileIdle == mediaRecorderRef = 0 /\ (StopClick \/ Unmount)

\* C6 (as claimed): stop while Idle fails with InvalidStateError and changes
\* nothing: no recorder transition, no device track stopped.
C6_StopIdleRejected ==
  [][StopWhileIdle =>
       (raised' = "InvalidStateError" /\ UNCHANGED << runs, trackLive >>)]_vars

\* C6 (amended): stop while Idle raises no error and makes no recorder
\* transition (recorders, chunk list, duration counter and catalog are
\* unchanged); it clears the streaming flags and releases the session: every
\* device track of an acquired session is stopped.
C6_StopIdleReleases ==
  [][StopWhileIdle =>
       /\ raised' = "none"
       /\ UNCHANGED << runs, mediaRecorderRef, recordedChunks,
                       recordingDuration, localStorage >>
       /\ ~isStreaming' /\ ~isRecording'
       /\ streamRef => \A k \in Kinds : ~trackLive'[k]
       /\ ~streamRef => UNCHANGED trackLive]_vars

C6_Witness ==
  mode = "select" /\ camera = "granted" /\ streamRef /\ NoneLive /\ nruns = 0

\* C7: start is rejected with InvalidStateError, leaving recorder state, chunk
\* list and duration counter unchanged, when the session is missing or has
\* been released (a start while Recording cannot be issued: the start button
\* is rendered only while not streaming).
C7_StartRejected ==
  [][(StartClick /\ (~streamRef \/ NoneLive)) =>
       (raised' = "InvalidStateError" /\
        UNCHANGED << runs, recordedChunks, recordingDuration >>)]_vars

\* C8 (as claimed): every finalized run has exactly one catalog entry.
C8_ExactlyOneEntry ==
  \A r \in Runs : runs[r].pending = "done" => EntriesOf(r) = 1

\* C8 (amended): a run never has more than one catalog entry, and none before
\* its stop event; the run just finalized has one exactly when its stop event
\* found a non-empty chunk list and the store accepted the write.
C8_AtMostOneEntry ==
  /\ \A r \in Runs : EntriesOf(r) <= 1
  /\ \A r \in Runs : EntriesOf(r) = 1 => runs[r].pending = "done"
  /\ last.run # 0 =>
       EntriesOf(last.run) =
         (IF last.nchunks > 0 /\ last.outcome # "failed" THEN 1 ELSE 0)

C8_Witness ==
  /\ mode = "select"
  /\ last.run # 0 /\ runs[last.run].pending = "done"
  /\ EntriesOf(last.run) = 1

\* entries of a list that carry the id
WithId(list, videoId) == { i \in DOMAIN list : list[i].id = videoId }

\* C9: after deleteVideo(id) neither the in-memory list nor the persisted list
\* has an entry with that id, every other entry is kept, in order, in both,
\* no error is raised, and deleting an id that is not listed changes nothing.
C9_Remove ==
  [][\A videoId \in VideoIds : DeleteVideo(videoId) =>
       /\ WithId(savedVideos', videoId) = {}
       /\ WithId(localStorage'.savedVideos, videoId) = {}
       /\ Len(savedVideos') =
            Len(savedVideos) - Cardinality(WithId(savedVideos, videoId))
       /\ \A i \in DOMAIN savedVideos :
            savedVideos[i].id # videoId =>
              savedVideos'[i - Cardinality({ k \in WithId(savedVideos, videoId) :
                                               k < i })] = savedVideos[i]
       /\ localStorage'.savedVideos = savedVideos'
       /\ raised' = "none"
       /\ WithId(savedVideos, videoId) = {} =>
            UNCHANGED << savedVideos, localStorage >>]_vars

\* an id was deleted twice or was never listed, and another entry survived
C9_Witness ==
  /\ mode = "gallery"
  /\ 101 \in removed /\ 104 \in removed
  /\ savedVideos = <<V2>>
  /\ localStorage.savedVideos = <<V2>>

\* C10: the content reference of every catalog entry is resolvable as long as
\* the entry exists.
C10_UrlLiveWhileListed ==
  \A i \in DOMAIN Recordings : Recordings[i].url \in liveUrls

\* C11: the catalog never holds two entries with the same id (a colliding
\* append is rejected and leaves the catalog as it was).
C11_UniqueIds ==
  \A i, j \in DOMAIN Recordings : i # j => Recordings[i].id # Recordings[j].id

\* C12: when the store rejects the write of saveRecording, the persisted
\* catalog is what it was before the call, the store's exception escapes
\* saveRecording to its caller, and the artifact is not lost to the caller:
\* its chunks are still in the chunk list and its object URL is not left
\* allocated.
C12_RejectedWrite ==
  [][\A r \in Runs : (OnStop(r) /\ last'.outcome = "failed") =>
       /\ localStorage' = localStorage
       /\ raised' = "QuotaExceededError"
       /\ recordedChunks' = recordedChunks
       /\ last'.artifact = recordedChunks
       /\ liveUrls' = liveUrls]_vars

\* a second recording was rejected by the store that holds the first
C12_Witness ==
  /\ last.outcome = "failed" /\ last.nchunks > 0
  /\ raised = "QuotaExceededError"
  /\ Len(Recordings) = 1 /\ EntriesOf(last.run) = 0

\* what the gallery lists
Shown == filteredAndSortedVideos(savedVideos, searchTerm, sortBy, filterBy, now)

\* the elements of a sequence
Range(list) == {list[i] : i \in DOMAIN list}

\* C13: with the time filter 'today' and an empty search term the gallery
\* lists exactly the videos whose calendar date is the current calendar date;
\* a video dated yesterday is not listed even when it is less than 24 hours
\* old.
C13_TodayIsCalendarDate ==
  (mode = "gallery" /\ filterBy = "today" /\ searchTerm = <<>>) =>
     /\ Range(Shown) = {v \in Range(savedVideos) :
                           v.timestamp \div Day = now \div Day}
     /\ \A v \in Range(savedVideos) :
          v.timestamp \div Day = (now \div Day) - 1 => v \notin Range(Shown)

\* a video less than 24 hours old and dated yesterday is in the store and
\* not listed, one dated today is listed
C13_Witness ==
  /\ mode = "gallery" /\ filterBy = "today" /\ searchTerm = <<>>
  /\ \E v \in Range(savedVideos) :
       /\ now - v.timestamp < Day
       /\ v.timestamp \div Day = (now \div Day) - 1
       /\ v \notin Range(Shown)
  /\ Shown # <<>>

\* the term occurs in the string at some position, letter case apart
Occurs(term, str) ==
  \E k \in 0..Len(str) :
    /\ k + Len(term) <= Len(str)
    /\ \A j \in 1..Len(term) : LowerChar(str[k + j]) = LowerChar(term[j])

TermHit(v, term) == Occurs(term, v.filename) \/ Occurs(term, v.streamId)

\* C14: the search term and the time filter both have to hold; 'week' keeps
\* the videos recorded at or after now - 7 days, 'month' those at or after
\* now - 30 days. With a recorded today and b recorded 10 days ago, both
\* named clip..., the query (search 'clip', week, by date) lists just a.
C14_SearchAndWindow ==
  (mode = "gallery" /\ filterBy \in {"week", "month"}) =>
     /\ Range(Shown) =
          {v \in Range(savedVideos) :
             /\ TermHit(v, searchTerm)
             /\ now - v.timestamp <= (IF filterBy = "week" THEN 7 ELSE 30) * Day}
     /\ (/\ savedVideos \in {<< Qa, Qb >>, << Qb, Qa >>}
         /\ searchTerm = << "c", "l", "i", "p" >>
         /\ filterBy = "week" /\ sortBy = "date") => Shown = << Qa >>

\* the example of the claim: both videos match the term, the window cuts b
C14_Witness ==
  /\ mode = "gallery"
  /\ savedVideos = << Qa, Qb >>
  /\ searchTerm = << "c", "l", "i", "p" >>
  /\ filterBy = "week" /\ sortBy = "date"
  /\ TermHit(Qb, searchTerm)
  /\ Shown = << Qa >>

\* C15: a video matches the search term exactly when the term is, letter
\* case apart, a substring of its filename or of its streamId; the empty
\* term matches every video.
C15_SearchMatch ==
  (mode = "gallery" /\ filterBy = "all") =>
     /\ \A v \in Range(savedVideos) :
          v \in Range(Shown) <=> TermHit(v, searchTerm)
     /\ searchTerm = <<>> => Range(Shown) = Range(savedVideos)

\* an upper-case term lists a video by its lower-case streamId alone and
\* leaves another video out
C15_Witness ==
  /\ mode = "gallery" /\ filterBy = "all"
  /\ searchTerm = << "C", "L" >>
  /\ \E v \in Range(Shown) : ~Occurs(searchTerm, v.filename)
  /\ \E w \in Range(savedVideos) : w \notin Range(Shown)

\* C16: sorted by duration the list is non-increasing in duration and videos
\* of equal duration come in ascending id order (so the order of the store
\* does not show in the result).
C16_DurationOrder ==
  (mode = "gallery" /\ sortBy = "duration") =>
     \A i, j \in DOMAIN Shown :
        i < j => \/ Shown[i].duration > Shown[j].duration
                 \/ /\ Shown[i].duration = Shown[j].duration
                    /\ Shown[i].id < Shown[j].id

\* C17: evaluating the query changes neither the savedVideos array (what it
\* holds and in what order) nor the stored list.
C17_QueryReadsOnly ==
  [][(\/ \E term \in SearchTerms : SetSearchTerm(term)
      \/ \E key \in SortKeys : SetSortBy(key)
      \/ \E by \in TimeFilters : SetFilterBy(by)) =>
       /\ savedVideos' = savedVideos
       /\ localStorage' = localStorage]_vars

\* a query that lists the videos in another order than the array has them
\* has been evaluated
C17_Witness ==
  /\ mode = "gallery"
  /\ Len(savedVideos) >= 2
  /\ localStorage.savedVideos = savedVideos
  /\ sortBy = "duration"
  /\ Len(Shown) = Len(savedVideos) /\ Shown # savedVideos

\* stopStreaming has run on this session and nothing was started since:
\* the tracks have ended, the recorder is not recording, the duration
\* interval is cleared
Released ==
  /\ streamRef
  /\ NoneLive
  /\ mediaRecorderRef # 0 => runs[mediaRecorderRef].state = "inactive"
  /\ recordingIntervalRef \notin activeTimers

\* C18: releasing a released session again (the stop button or the unmount
\* calling stopStreaming once more) raises nothing, stops no track, recorder
\* or timer, and causes no further save of the recording.
C18_SecondReleaseNoOp ==
  [][(Released /\ (StopClick \/ Unmount)) =>
       /\ UNCHANGED << streamRef, trackLive, runs, activeTimers,
                       recordedChunks, mediaRecorderRef, storeVars >>
       /\ raised' = "none"
       /\ last' = NoSave]_vars

\* the Broadcaster was unmounted after a start that threw on the already
\* released session: the unmount was a second release
C18_Witness ==
  /\ mode = "select"
  /\ streamRef /\ NoneLive
  /\ ~isStreaming
  /\ mediaRecorderRef # 0
  /\ runs[mediaRecorderRef] = NeverStarted

\* C19: once the Broadcaster is unmounted none of the tracks it acquired is
\* live, also when it is unmounted while getUserMedia is pending.
C19_NoLiveTrackAfterTeardown ==
  mode # "broadcast" => NoneLive

\* what a toggle of the track of kind k may change
ToggleFrame(k) ==
  /\ trackEnabled' = IF streamRef THEN [trackEnabled EXCEPT ![k] = ~@]
                                  ELSE trackEnabled
  /\ UNCHANGED << camera, streamRef, trackLive, flagVars, recordingDuration,
                  recVars, storeVars >>
  /\ raised' = "none"

\* C20: toggleVideo (toggleAudio) flips the enabled flag of the video
\* (audio) track and of no other track; the session stays acquired, the
\* recorder, the chunks and the duration are as they were; without a
\* session nothing changes.
C20_ToggleFlipsOneFlag ==
  [][/\ ToggleVideo => ToggleFrame("video")
     /\ ToggleAudio => ToggleFrame("audio")]_vars

\* the video was switched off during a recording that goes on
C20_Witness ==
  /\ mode = "broadcast"
  /\ streamRef /\ AllLive
  /\ ~trackEnabled["video"] /\ trackEnabled["audio"]
  /\ ~isVideoEnabled /\ isAudioEnabled
  /\ isRecording /\ mediaRecorderRef # 0
  /\ runs[mediaRecorderRef].state = "recording"
  /\ recordedChunks # <<>>
  /\ recordingDuration > 0

\* C21: when getUserMedia fails, startCamera raises DeviceError to its
\* caller, holds no session afterwards and does not try again.
C21_DeviceErrorRaised ==
  [][CameraDenied =>
       /\ raised' = "DeviceError"
       /\ ~streamRef' /\ NoneLive'
       /\ camera' = "denied"]_vars

\* C21 as amended: when getUserMedia fails, startCamera catches the
\* rejection (it logs and alerts) and nothing is raised to its caller; no
\* session is held afterwards, and the camera is asked again only by a new
\* mount of the Broadcaster.
C21_FailureCaught ==
  [][/\ CameraDenied =>
          /\ raised' = "none"
          /\ ~streamRef' /\ NoneLive'
          /\ camera' = "denied"
     /\ (camera = "denied" /\ camera' # "denied") => StartBroadcast
     /\ camera = "denied" => (~streamRef /\ NoneLive)]_vars

\* the camera was refused to a mounted Broadcaster
C21_Witness ==
  /\ mode = "broadcast"
  /\ camera = "denied"
  /\ ~streamRef /\ NoneLive
  /\ raised = "none"

\* C22: the artifact assembled at a recorder's stop event holds chunks of
\* that recorder's run only, and it holds the chunks that run emitted, also
\* when the next run was started before this stop event.
C22_ArtifactOfOneRun ==
  last.run # 0 =>
    /\ \A i \in DOMAIN last.artifact : last.artifact[i][1] = last.run
    /\ \A k \in 1..last.emitted :
         \E i \in DOMAIN last.artifact : last.artifact[i] = << last.run, k >>

\* C23: once the Broadcaster is unmounted, or its streaming is stopped, none
\* of the intervals it started (duration, viewer count) is still scheduled.
C23_NoTimerAfterStop ==
  (mode # "broadcast" \/ ~isStreaming) =>
     (activeTimers = {} /\ viewerTimers = {})

\* C24: isStreaming and isRecording are true only while the recorder the
\* ref holds is recording; a throw inside startStreaming does not leave
\* them true.
C24_FlagsImplyRecording ==
  (isStreaming \/ isRecording) =>
     (mediaRecorderRef # 0 /\ runs[mediaRecorderRef].state = "recording")

\* C25: while the gallery is shown the selected video is none or one of the
\* videos in the savedVideos array, and the stored 'savedVideos' list equals
\* that array, whatever has been deleted.
C25_SelectionListed ==
  mode = "gallery" =>
     /\ \/ selectedVideo = NoVideo
        \/ \E i \in DOMAIN savedVideos : savedVideos[i] = selectedVideo
     /\ localStorage.savedVideos = savedVideos

\* a video is still selected and listed after another one was deleted
C25_Witness ==
  /\ mode = "gallery"
  /\ removed = {101}
  /\ selectedVideo = V2
  /\ savedVideos = << V2 >>
  /\ localStorage.savedVideos = << V2 >>

====
